---- MODULE Spec2Model ----
(***************************************************************************)
(* QuantEmul: HilbertSpace (composite spaces and the flat-index /          *)
(* multi-index maps), QuantumState (density matrix, validation, partial    *)
(* trace) and UnitaryTransformation (construction checks).                 *)
(*                                                                         *)
(* The module holds one state machine per component.  Each has its own     *)
(* initial predicate and next-state relation and leaves the variables of   *)
(* the other components alone:                                             *)
(*   SpecHS   HilbertSpace objects under the constructors, tensor and      *)
(*            tensorWith                                                   *)
(*   SpecIdx  getVector / getIndex on a constructed space                  *)
(*   SpecPT   QuantumState::partialTrace, one loop iteration per step      *)
(*   SpecQS   QuantumState construction and setMatrix                      *)
(*   SpecUT   UnitaryTransformation construction                           *)
(***************************************************************************)
EXTENDS Integers, Sequences, FiniteSets, TLC

VARIABLES
    hs,       \* HilbertSpace objects A and B
    hlast,    \* the last HilbertSpace call: operands, their values before it, outcome
    space,    \* the HilbertSpace getVector / getIndex are called on
    vecOut,   \* the last getVector call: argument and returned multi-index
    vecPrev,  \* the getVector call before it
    idxOut,   \* the last getIndex call: argument and outcome
    ptSpace,  \* _space of the QuantumState partialTrace is called on
    pt,       \* the partialTrace call: position in its loops, locals, outcome
    qs,       \* a QuantumState object: _density, _space, _eigenValues, _eigenVectors
    qlast,    \* the last QuantumState call: arguments and outcome
    ut,       \* a UnitaryTransformation object: its transform matrix
    ulast     \* the last UnitaryTransformation construction: arguments and outcome

hsVars == <<hs, hlast>>
idxVars == <<space, vecOut, vecPrev, idxOut>>

ptVars == <<ptSpace, pt>>

qsVars == <<qs, qlast>>

utVars == <<ut, ulast>>

vars == <<hs, hlast, space, vecOut, vecPrev, idxOut, ptSpace, pt, qs, qlast, ut, ulast>>

\* what the actions of one component leave alone
notHS == <<idxVars, ptVars, qsVars, utVars>>
notIdx == <<hsVars, ptVars, qsVars, utVars>>
notPT == <<hsVars, idxVars, qsVars, utVars>>
notQS == <<hsVars, idxVars, ptVars, utVars>>
notUT == <<hsVars, idxVars, ptVars, qsVars>>

(***************************************************************************)
(* Bounds of the model.                                                    *)
(***************************************************************************)
\* largest factor dimension handed to a HilbertSpace constructor
MaxDim == 2
\* longest dimension list handed to HilbertSpace(const std::vector<uint>&)
MaxCtorLen == 2
\* tensor / tensorWith are not taken once _dimensions would grow beyond this
MaxLen == 3
\* largest factor dimension and rank of the spaces getVector / getIndex run on
MaxIdxDim == 2
MaxIdxRank == 3
\* largest factor dimension and rank of the states partialTrace runs on
MaxPtDim == 2
MaxPtRank == 3

(***************************************************************************)
(* Helpers.                                                                *)
(***************************************************************************)
RECURSIVE SeqsOfLen(_, _)
SeqsOfLen(S, n) ==
    IF n = 0 THEN {<<>>}
    ELSE {Append(s, x) : s \in SeqsOfLen(S, n - 1), x \in S}

SeqsUpTo(S, n) == UNION {SeqsOfLen(S, k) : k \in 0..n}

RECURSIVE Product(_)
Product(s) == IF s = <<>> THEN 1 ELSE Head(s) * Product(Tail(s))

(***************************************************************************)
(* HilbertSpace.  An object is the record of its three fields.             *)
(***************************************************************************)
\* the two HilbertSpace objects of the model
Objs == {"A", "B"}

\* HilbertSpace::HilbertSpace()
HilbertSpaceDefault == [rank |-> 0, dimensions |-> <<>>, dim |-> 0]

\* HilbertSpace::HilbertSpace(uint dim), the non-throwing path
HilbertSpaceDim(d) == [rank |-> 1, dimensions |-> <<d>>, dim |-> d]

\* the loop of HilbertSpace(const std::vector<uint>&): TRUE when it throws
CtorDimsThrows(D) == \E i \in 1..Len(D) : D[i] = 0

\* the running product _dim of HilbertSpace(const std::vector<uint>&)
RECURSIVE CtorDimsProduct(_, _, _)
CtorDimsProduct(D, i, acc) ==
    IF i > Len(D) THEN acc ELSE CtorDimsProduct(D, i + 1, acc * D[i])

\* HilbertSpace::HilbertSpace(const std::vector<uint>&), the non-throwing path
HilbertSpaceDims(D) ==
    [rank |-> Len(D), dimensions |-> D, dim |-> CtorDimsProduct(D, 1, 1)]

(* The push_back loop of tensorWith.  i counts from 0 as in the code; n is  *)
(* second._rank, read again at every test of the loop condition.  When     *)
(* second is *this (aliased), second._dimensions is the vector being       *)
(* appended to and second._rank is the rank already increased.             *)
RECURSIVE PushLoop(_, _, _, _, _)
PushLoop(dims, secondDims, aliased, i, n) ==
    IF i >= n THEN dims
    ELSE LET src == IF aliased THEN dims ELSE secondDims
         IN PushLoop(Append(dims, src[i + 1]), secondDims, aliased, i + 1, n)

\* HilbertSpace::tensorWith(second) on the object self; aliased: &second = this
tensorWith(self, second, aliased) ==
    LET rank1 == self.rank + second.rank
        n == IF aliased THEN rank1 ELSE second.rank
        dims1 == PushLoop(self.dimensions, second.dimensions, aliased, 0, n)
        secondDim == IF aliased THEN self.dim ELSE second.dim
    IN [rank |-> rank1, dimensions |-> dims1, dim |-> self.dim * secondDim]

\* HilbertSpace::tensor(first, second): a copy of first, tensorWith(second)
tensor(first, second) == tensorWith(first, second, FALSE)

\* HilbertSpace::operator==
SpaceEq(a, b) == a.dimensions = b.dimensions

NoCall == [op |-> "none"]
NoVec == [kind |-> "none"]

(* The components not under check stay idle.                               *)
IdleHS == hs = [o \in Objs |-> HilbertSpaceDefault] /\ hlast = NoCall

IdleQS == qs = [kind |-> "none"] /\ qlast = NoCall

IdleUT == ut = [kind |-> "none"] /\ ulast = NoCall

IdlePT == ptSpace = HilbertSpaceDefault /\ pt = [pc |-> "idle"]

IdleIdx ==
    /\ space = HilbertSpaceDefault
    /\ vecOut = NoVec
    /\ vecPrev = NoVec
    /\ idxOut = NoVec

InitHS ==
    /\ hs = [o \in Objs |-> HilbertSpaceDefault]
    /\ hlast = NoCall
    /\ IdleIdx
    /\ IdlePT
    /\ IdleQS
    /\ IdleUT

\* o = HilbertSpace()
CtorDefault(o) ==
    /\ hs' = [hs EXCEPT ![o] = HilbertSpaceDefault]
    /\ hlast' = [op |-> "ctor", obj |-> o, arg |-> <<>>, err |-> "none"]
    /\ UNCHANGED notHS

\* o = HilbertSpace(d)
CtorDim(o, d) ==
    /\ IF d = 0
       THEN /\ hlast' = [op |-> "ctorDim", obj |-> o, arg |-> <<d>>,
                         err |-> "invalid_argument"]
            /\ UNCHANGED hs
       ELSE /\ hs' = [hs EXCEPT ![o] = HilbertSpaceDim(d)]
            /\ hlast' = [op |-> "ctorDim", obj |-> o, arg |-> <<d>>, err |-> "none"]
    /\ UNCHANGED notHS

\* o = HilbertSpace(D)
CtorDims(o, D) ==
    /\ IF CtorDimsThrows(D)
       THEN /\ hlast' = [op |-> "ctorDims", obj |-> o, arg |-> D,
                         err |-> "invalid_argument"]
            /\ UNCHANGED hs
       ELSE /\ hs' = [hs EXCEPT ![o] = HilbertSpaceDims(D)]
            /\ hlast' = [op |-> "ctorDims", obj |-> o, arg |-> D, err |-> "none"]
    /\ UNCHANGED notHS

\* HilbertSpace::tensor(a, b); hlast.result is the value returned
Tensor(a, b) ==
    /\ Len(hs[a].dimensions) + Len(hs[b].dimensions) <= MaxLen
    /\ hlast' = [op |-> "tensor", a |-> a, b |-> b, preA |-> hs[a], preB |-> hs[b],
                 result |-> tensor(hs[a], hs[b])]
    /\ UNCHANGED hs
    /\ UNCHANGED notHS

\* o = (the value tensor just returned)
AssignRet(o) ==
    /\ hlast.op = "tensor"
    /\ hs' = [hs EXCEPT ![o] = hlast.result]
    /\ hlast' = [op |-> "assign", obj |-> o]
    /\ UNCHANGED notHS

\* a.tensorWith(b), b another object
TensorWith(a, b) ==
    /\ a # b
    /\ Len(hs[a].dimensions) + Len(hs[b].dimensions) <= MaxLen
    /\ hs' = [hs EXCEPT ![a] = tensorWith(hs[a], hs[b], FALSE)]
    /\ hlast' = [op |-> "tensorWith", a |-> a, b |-> b, preA |-> hs[a], preB |-> hs[b]]
    /\ UNCHANGED notHS

\* a.tensorWith(a)
TensorWithSelf(a) ==
    /\ Len(hs[a].dimensions) + 2 * hs[a].rank <= MaxLen
    /\ hs' = [hs EXCEPT ![a] = tensorWith(hs[a], hs[a], TRUE)]
    /\ hlast' = [op |-> "tensorWithSelf", a |-> a, b |-> a, preA |-> hs[a], preB |-> hs[a]]
    /\ UNCHANGED notHS

NextHS ==
    \/ \E o \in Objs : CtorDefault(o)
    \/ \E o \in Objs, d \in 0..MaxDim : CtorDim(o, d)
    \/ \E o \in Objs, D \in SeqsUpTo(0..MaxDim, MaxCtorLen) : CtorDims(o, D)
    \/ \E a \in Objs, b \in Objs : Tensor(a, b)
    \/ \E o \in Objs : AssignRet(o)
    \/ \E a \in Objs, b \in Objs : TensorWith(a, b)
    \/ \E a \in Objs : TensorWithSelf(a)


(***************************************************************************)
(* Claims about HilbertSpace objects (checked under SpecHS).               *)
(***************************************************************************)
\* C5: tensor(A, B) returns dimensions A ++ B, rank A.rank + B.rank and
\* totalDimension A.total * B.total and leaves A and B unchanged;
\* A.tensorWith(B), B another object, sets A to that value and leaves B unchanged.
C5_TensorComposition ==
    /\ hlast.op = "tensor" =>
          /\ hlast.result.dimensions = hlast.preA.dimensions \o hlast.preB.dimensions
          /\ hlast.result.rank = hlast.preA.rank + hlast.preB.rank
          /\ hlast.result.dim = hlast.preA.dim * hlast.preB.dim
          /\ hs[hlast.a] = hlast.preA
          /\ hs[hlast.b] = hlast.preB
    /\ hlast.op = "tensorWith" =>
          /\ hs[hlast.a].dimensions = hlast.preA.dimensions \o hlast.preB.dimensions
          /\ hs[hlast.a].rank = hlast.preA.rank + hlast.preB.rank
          /\ hs[hlast.a].dim = hlast.preA.dim * hlast.preB.dim
          /\ hs[hlast.b] = hlast.preB

\* rank = length of dimensions, every factor >= 1, totalDimension = product
WellFormed(s) ==
    /\ s.rank = Len(s.dimensions)
    /\ \A i \in 1..Len(s.dimensions) : s.dimensions[i] >= 1
    /\ s.dim = Product(s.dimensions)

\* C8: every reachable HilbertSpace (an object, or a value tensor returned) has
\* rank = length of dimensions, factors >= 1 and totalDimension = product of
\* dimensions, the default-constructed value excepted; a constructor given a
\* zero dimension fails with invalid_argument.
C8_StructuralInvariant ==
    /\ \A o \in Objs : WellFormed(hs[o]) \/ hs[o] = HilbertSpaceDefault
    /\ hlast.op = "tensor" =>
          WellFormed(hlast.result) \/ hlast.result = HilbertSpaceDefault
    /\ hlast.op \in {"ctorDim", "ctorDims"} =>
          ((\E i \in 1..Len(hlast.arg) : hlast.arg[i] = 0)
              <=> hlast.err = "invalid_argument")

\* C9: A == B implies equal rank() and equal totalDimension()
C9_EqualityConsistent ==
    \A a \in Objs, b \in Objs :
        SpaceEq(hs[a], hs[b]) =>
            /\ hs[a].rank = hs[b].rank
            /\ hs[a].dim = hs[b].dim

(***************************************************************************)
(* getVector / getIndex.  A multi-index is a sequence of integers (the     *)
(* code stores them in the real parts of a VectorXcd and reads them back   *)
(* with an (int) cast, which is exact for these values); positions are     *)
(* 0-based in the code and i + 1 here.                                     *)
(***************************************************************************)
\* the loop of getVector, i running from _rank - 1 down to 0
RECURSIVE GetVectorLoop(_, _, _, _)
GetVectorLoop(s, vec, i, index) ==
    IF i < 0 THEN vec
    ELSE GetVectorLoop(s,
                       [vec EXCEPT ![i + 1] = index % s.dimensions[i + 1]],
                       i - 1,
                       index \div s.dimensions[i + 1])

\* HilbertSpace::getVector(index), index >= 0
getVector(s, index) ==
    GetVectorLoop(s, [k \in 1..s.rank |-> 0], s.rank - 1, index)

\* getIndex's loop with a seeded fault: the multiplier is not advanced
RECURSIVE GetIndexLoopStuck(_, _, _, _, _)
GetIndexLoopStuck(s, vec, i, index, multiplier) ==
    IF i < 0 THEN index
    ELSE GetIndexLoopStuck(s, vec, i - 1, index + vec[i + 1] * multiplier, multiplier)

\* the loop of getIndex, i running from vec.size() - 2 down to 0
RECURSIVE GetIndexLoop(_, _, _, _, _)
GetIndexLoop(s, vec, i, index, multiplier) ==
    IF i < 0 THEN index
    ELSE GetIndexLoop(s, vec, i - 1,
                      index + vec[i + 1] * multiplier,
                      multiplier * s.dimensions[i + 1])

\* what a read outside a buffer may return
Garbage == {-1, 0, 5}

(* HilbertSpace::getIndex(vec): the set of outcomes.  With vec.size() = 0  *)
(* (= _rank) the size check passes and vec[vec.size() - 1] and             *)
(* _dimensions[_rank - 1] are read at position -1: undefined behaviour,    *)
(* which returns whatever lies there or stops the program.                 *)
getIndex(s, vec) ==
    IF Len(vec) # s.rank THEN {[kind |-> "invalid_argument"]}
    ELSE IF Len(vec) = 0
         THEN {[kind |-> "abort"]} \cup {[kind |-> "value", res |-> g] : g \in Garbage}
         ELSE {[kind |-> "value",
                res |-> GetIndexLoop(s, vec, Len(vec) - 2, vec[Len(vec)],
                                     s.dimensions[s.rank])]}

\* the multi-indices of s: one coordinate per factor, each below its dimension
MultiIndices(s) ==
    {v \in SeqsOfLen(0..(MaxIdxDim - 1), s.rank) :
        \A p \in 1..s.rank : v[p] < s.dimensions[p]}

InitIdx ==
    /\ space \in {HilbertSpaceDims(D) : D \in SeqsUpTo(1..MaxIdxDim, MaxIdxRank)}
    /\ vecOut = NoVec
    /\ vecPrev = NoVec
    /\ idxOut = NoVec
    /\ IdleHS
    /\ IdlePT
    /\ IdleQS
    /\ IdleUT

\* space.getVector(i) for a flat index of the space
CallGetVector(i) ==
    /\ vecOut' = [kind |-> "ofInput", arg |-> i, vec |-> getVector(space, i)]
    /\ vecPrev' = vecOut
    /\ idxOut' = NoVec
    /\ UNCHANGED space
    /\ UNCHANGED notIdx

\* space.getIndex(v), v the multi-index the last getVector call returned
CallGetIndexOfVector ==
    /\ vecOut.kind = "ofInput"
    /\ \E out \in getIndex(space, vecOut.vec) :
          idxOut' = [kind |-> "ofVector", arg |-> vecOut.vec, of |-> vecOut.arg,
                     out |-> out]
    /\ vecOut' = NoVec
    /\ vecPrev' = NoVec
    /\ UNCHANGED space
    /\ UNCHANGED notIdx

\* space.getIndex(v) for a vector the caller supplies
CallGetIndex(v) ==
    /\ \E out \in getIndex(space, v) :
          idxOut' = [kind |-> "ofInput", arg |-> v, of |-> -1, out |-> out]
    /\ vecOut' = NoVec
    /\ vecPrev' = NoVec
    /\ UNCHANGED space
    /\ UNCHANGED notIdx

\* space.getVector(n), n the flat index the last getIndex call returned
CallGetVectorOfIndex ==
    /\ idxOut.kind = "ofInput"
    /\ idxOut.out.kind = "value"
    /\ idxOut.out.res >= 0
    /\ vecOut' = [kind |-> "ofIndex", arg |-> idxOut.out.res, of |-> idxOut.arg,
                  vec |-> getVector(space, idxOut.out.res)]
    /\ vecPrev' = NoVec
    /\ idxOut' = NoVec
    /\ UNCHANGED space
    /\ UNCHANGED notIdx

NextIdx ==
    \/ \E i \in 0..(space.dim - 1) : CallGetVector(i)
    \/ CallGetIndexOfVector
    \/ \E v \in MultiIndices(space) \cup SeqsOfLen({0}, space.rank + 1) : CallGetIndex(v)
    \/ CallGetVectorOfIndex

(***************************************************************************)
(* Claims about getVector / getIndex (checked under SpecIdx).              *)
(***************************************************************************)
\* C2: for every space built from a list of positive dimensions and every
\* flat index i below totalDimension(), getIndex(getVector(i)) returns i.
C2_RoundTrip ==
    idxOut.kind = "ofVector" =>
        /\ idxOut.out.kind = "value"
        /\ idxOut.out.res = idxOut.of

\* lexicographic order of two multi-indices of the same length
LexLess(u, v) ==
    \E p \in 1..Len(u) :
        /\ \A q \in 1..(p - 1) : u[q] = v[q]
        /\ u[p] < v[p]

\* C10: on a space of rank >= 1, getVector(i) has every coordinate within its
\* factor dimension; getIndex(v) of a multi-index lies in [0, totalDimension)
\* and getVector(getIndex(v)) = v; i < j implies getVector(i) precedes
\* getVector(j) lexicographically.
C10_RowMajorBijection ==
    space.rank >= 1 =>
        /\ vecOut.kind = "ofInput" =>
              /\ Len(vecOut.vec) = space.rank
              /\ \A p \in 1..space.rank :
                    0 <= vecOut.vec[p] /\ vecOut.vec[p] < space.dimensions[p]
        /\ (idxOut.kind = "ofInput" /\ idxOut.arg \in MultiIndices(space)) =>
              /\ idxOut.out.kind = "value"
              /\ 0 <= idxOut.out.res
              /\ idxOut.out.res < space.dim
        /\ vecOut.kind = "ofIndex" => vecOut.vec = vecOut.of
        /\ (vecOut.kind = "ofInput" /\ vecPrev.kind = "ofInput"
                /\ vecPrev.arg < vecOut.arg) =>
              LexLess(vecPrev.vec, vecOut.vec)

\* C10 witness: on the space 2 x 1 x 2 the multi-index <<1, 0, 1>> went through
\* getIndex (3) and back through getVector
C10_Witness ==
    /\ space.dimensions = <<2, 1, 2>>
    /\ vecOut.kind = "ofIndex"
    /\ vecOut.of = <<1, 0, 1>>
    /\ vecOut.arg = 3
    /\ vecOut.vec = <<1, 0, 1>>

(***************************************************************************)
(* QuantumState::partialTrace.  The density matrix is the generic matrix:  *)
(* its entry in row a, column b (flat indices from 0) is the indeterminate *)
(* <<a, b>>, and a sum of entries is the sequence of the entries added, in *)
(* the order the loop adds them.  Every concrete density matrix is an      *)
(* instance of it.  One step of the machine is one pass of the inner loop. *)
(***************************************************************************)
\* _density(a, b)
Density(a, b) == <<a, b>>

(* HilbertSpace::getBasisVector(vec): the column vector with a single 1,   *)
(* at the flat index of vec, given here by the position of that 1.         *)
getBasisVector(s, vec) == (CHOOSE out \in getIndex(s, vec) : TRUE).res

\* dims.erase(dims.begin() + index)
Erase(dims, index) == SubSeq(dims, 1, index) \o SubSeq(dims, index + 2, Len(dims))

\* RightIndex with a seeded fault: the traced coordinate of <jk| is 0, not k
RightIndexNoK(vecLeftIndex, vecRightRed, index) ==
    [p \in 1..Len(vecLeftIndex) |->
        IF p - 1 < index THEN vecRightRed[p]
        ELSE IF p - 1 > index THEN vecRightRed[p - 1]
        ELSE 0]

\* the first loop of the body: vecRightIndex from vecRightRed and k
RightIndex(vecLeftIndex, vecRightRed, index) ==
    [p \in 1..Len(vecLeftIndex) |->
        IF p - 1 < index THEN vecRightRed[p]
        ELSE IF p - 1 > index THEN vecRightRed[p - 1]
        ELSE vecLeftIndex[index + 1]]

\* the second loop of the body: vecLeftRed, vecLeftIndex without position index
RECURSIVE LeftRedLoop(_, _, _, _)
LeftRedLoop(vecLeftRed, vecLeftIndex, index, i) ==
    IF i >= Len(vecLeftIndex) THEN vecLeftRed
    ELSE IF i < index
         THEN LeftRedLoop([vecLeftRed EXCEPT ![i + 1] = vecLeftIndex[i + 1]],
                          vecLeftIndex, index, i + 1)
    ELSE IF i > index
         THEN LeftRedLoop([vecLeftRed EXCEPT ![i] = vecLeftIndex[i + 1]],
                          vecLeftIndex, index, i + 1)
    ELSE LeftRedLoop(vecLeftRed, vecLeftIndex, index, i + 1)

\* res.setZero() on a matrix of n rows and n columns
ZeroMatrix(n) == [rc \in (0..(n - 1)) \X (0..(n - 1)) |-> <<>>]

InitPT ==
    /\ ptSpace \in {HilbertSpaceDims(D) :
                      D \in SeqsUpTo(1..MaxPtDim, MaxPtRank) \ {<<>>}}
    /\ pt = [pc |-> "idle"]
    /\ IdleHS
    /\ IdleIdx
    /\ IdleQS
    /\ IdleUT

\* partialTrace(index) up to the loops: the two checks, newSpace, res
PartialTraceCall(index) ==
    /\ pt.pc \in {"idle", "done", "error", "fault"}
    /\ IF index < 0 \/ index >= ptSpace.rank
       THEN pt' = [pc |-> "error", index |-> index, self |-> ptSpace,
                   err |-> "invalid_argument"]
       ELSE LET newSpace == HilbertSpaceDims(Erase(ptSpace.dimensions, index))
            IN pt' = [pc |-> "loop", index |-> index, self |-> ptSpace,
                      newSpace |-> newSpace, res |-> ZeroMatrix(newSpace.dim),
                      row |-> 0, col |-> 0, outOfBounds |-> FALSE]
    /\ UNCHANGED ptSpace
    /\ UNCHANGED notPT

\* the loop counters after one pass of the inner loop
Advance(f) ==
    IF f.col + 1 < ptSpace.dim \div ptSpace.dimensions[f.index + 1]
    THEN [f EXCEPT !.col = f.col + 1]
    ELSE IF f.row + 1 < ptSpace.dim
         THEN [f EXCEPT !.row = f.row + 1, !.col = 0]
         ELSE [f EXCEPT !.pc = "return"]

(* One pass of the inner loop.  newSpace.getIndex may be undefined         *)
(* behaviour (newSpace of rank 0): then it stops the program or returns    *)
(* garbage, and an index outside res makes res(r, c) += coef a fault too.  *)
PartialTraceStep ==
    /\ pt.pc = "loop"
    /\ LET vecLeftIndex == getVector(ptSpace, pt.row)
           vecRightRed == getVector(pt.newSpace, pt.col)
           vecRightIndex == RightIndex(vecLeftIndex, vecRightRed, pt.index)
           vecLeftRed == LeftRedLoop(vecRightRed, vecLeftIndex, pt.index, 0)
           coef == Density(getBasisVector(ptSpace, vecLeftIndex),
                           getBasisVector(ptSpace, vecRightIndex))
           n == pt.newSpace.dim
           oob == pt.outOfBounds \/ Len(vecLeftRed) = 0
       IN \E r \in getIndex(pt.newSpace, vecLeftRed),
             c \in getIndex(pt.newSpace, vecRightRed) :
             IF /\ r.kind = "value" /\ c.kind = "value"
                /\ r.res \in 0..(n - 1) /\ c.res \in 0..(n - 1)
             THEN pt' = Advance([pt EXCEPT
                                   !.res[<<r.res, c.res>>] = Append(@, coef),
                                   !.outOfBounds = oob])
             ELSE pt' = [pc |-> "fault", index |-> pt.index, self |-> pt.self,
                         outOfBounds |-> oob]
    /\ UNCHANGED ptSpace
    /\ UNCHANGED notPT

(* return QuantumState(res, newSpace).  The partial trace of a density     *)
(* matrix is a density matrix of newSpace's dimension, so in exact         *)
(* arithmetic the constructor's checks pass; its result is res over        *)
(* newSpace.                                                               *)
PartialTraceReturn ==
    /\ pt.pc = "return"
    /\ pt' = [pt EXCEPT !.pc = "done"]
    /\ UNCHANGED ptSpace
    /\ UNCHANGED notPT

NextPT ==
    \/ \E index \in (-1)..MaxPtRank : PartialTraceCall(index)
    \/ PartialTraceStep
    \/ PartialTraceReturn

(***************************************************************************)
(* Claims about partialTrace (checked under SpecPT).                       *)
(***************************************************************************)
\* row-major mixed-radix flat index of multi-index v over dimensions dims
RECURSIVE Flat(_, _, _, _)
Flat(dims, v, p, acc) ==
    IF p > Len(v) THEN acc ELSE Flat(dims, v, p + 1, acc * dims[p] + v[p])

\* v with coordinate k inserted at (0-based) position t
Ins(v, t, k) == SubSeq(v, 1, t) \o <<k>> \o SubSeq(v, t + 1, Len(v))

\* the multi-indices over a dimension list
MultiIndicesOver(dims) ==
    {v \in SeqsOfLen(0..(MaxPtDim - 1), Len(dims)) :
        \A p \in 1..Len(dims) : v[p] < dims[p]}

\* the entries of a sequence, and TRUE when none occurs twice
Range(q) == {q[n] : n \in 1..Len(q)}
NoRepeat(q) == Cardinality(Range(q)) = Len(q)

\* C3: for rank >= 2 and t in [0, rank), the accumulated matrix has at (i, j)
\* exactly the sum over k < D[t] of rho[ins(i,t,k), ins(j,t,k)]: each such
\* entry once, and nothing else.
C3_PartialTraceFormula ==
    (pt.pc \in {"return", "done"} /\ ptSpace.rank >= 2) =>
        LET D == ptSpace.dimensions
            t == pt.index
            R == Erase(D, t)
        IN \A i \in MultiIndicesOver(R), j \in MultiIndicesOver(R) :
              LET sum == pt.res[<<Flat(R, i, 1, 0), Flat(R, j, 1, 0)>>]
              IN /\ NoRepeat(sum)
                 /\ Range(sum) =
                       {<<Flat(D, Ins(i, t, k), 1, 0), Flat(D, Ins(j, t, k), 1, 0)>> :
                           k \in 0..(D[t + 1] - 1)}

\* C3 witness: the middle factor of 2 x 2 x 2 traced out; entry (1, 2) of the
\* result is rho[1,4] + rho[3,6] (flat indices of <<0,k,1>> and <<1,k,0>>)
C3_Witness ==
    /\ pt.pc = "done"
    /\ ptSpace.dimensions = <<2, 2, 2>>
    /\ pt.index = 1
    /\ pt.res[<<1, 2>>] = <<<<1, 4>>, <<3, 6>>>>

\* C4: partialTrace(index) fails with invalid_argument exactly when index < 0
\* or index >= rank; otherwise it completes without a read outside a vector's
\* bounds and returns a state over the dimensions with position index removed;
\* the state it is called on is unchanged.
C4_IndexContract ==
    pt.pc # "idle" =>
        /\ ptSpace = pt.self
        /\ (pt.index < 0 \/ pt.index >= ptSpace.rank) <=> pt.pc = "error"
        /\ pt.pc = "error" => pt.err = "invalid_argument"
        /\ pt.pc # "fault"
        /\ pt.pc \in {"loop", "return", "done"} =>
              /\ ~pt.outOfBounds
              /\ pt.newSpace.dimensions = Erase(ptSpace.dimensions, pt.index)
              /\ pt.newSpace.rank = ptSpace.rank - 1

(***************************************************************************)
(* QuantumState: construction and setMatrix.                               *)
(*                                                                         *)
(* Complex numbers are Gaussian integers <<re, im>> over a common positive *)
(* denominator: a matrix is [rows, cols, den, e], standing for e[r, c] /   *)
(* den (den = 0: every entry is NaN).  The arithmetic is exact, so         *)
(* isApprox and the 1.0e-15 thresholds decide as exact comparisons do.     *)
(* The spectral decomposition is computed for matrices of 1 or 2 rows,     *)
(* whose eigenvalues are (t -+ s) / (2 den) with t the trace and s the     *)
(* root of the discriminant; the inputs are those with an integer s.  The   *)
(* solver converges on them, so its runtime_error path is not taken.       *)
(***************************************************************************)
CZero == <<0, 0>>
CAdd(x, y) == <<x[1] + y[1], x[2] + y[2]>>
CMul(x, y) == <<x[1] * y[1] - x[2] * y[2], x[1] * y[2] + x[2] * y[1]>>
CConj(x) == <<x[1], -x[2]>>
CNormSq(x) == x[1] * x[1] + x[2] * x[2]

Cells(rows, cols) == (1..rows) \X (1..cols)

\* matr.normalize() on a column vector: entries e / sqrt(densq)
Normalize(v) ==
    [rows |-> v.rows, densq |-> CNormSq(v.e[<<1, 1>>])
                                 + (IF v.rows = 2 THEN CNormSq(v.e[<<2, 1>>]) ELSE 0),
     e |-> v.e]

\* matr * matr.transpose() on the normalized column vector
OuterTranspose(n) ==
    [rows |-> n.rows, cols |-> n.rows, den |-> n.densq,
     e |-> [rc \in Cells(n.rows, n.rows) |->
              CMul(n.e[<<rc[1], 1>>], n.e[<<rc[2], 1>>])]]

\* _checkMatrixIsSquare: TRUE when it throws
NotSquare(m) == m.cols # m.rows

\* _checkMatrixIsSelfAdjoined: matr.isApprox(matr.adjoint())
IsSelfAdjoined(m) ==
    /\ m.den # 0
    /\ \A rc \in Cells(m.rows, m.cols) : m.e[rc] = CConj(m.e[<<rc[2], rc[1]>>])

\* matr.trace(), as a numerator over m.den
Trace(m) == IF m.rows = 1 THEN m.e[<<1, 1>>] ELSE CAdd(m.e[<<1, 1>>], m.e[<<2, 2>>])

\* discriminant (a - d)^2 + 4 |b|^2 of a self-adjoint matrix of 2 rows
Discriminant(m) ==
    LET a == m.e[<<1, 1>>][1]
        d == m.e[<<2, 2>>][1]
    IN (a - d) * (a - d) + 4 * CNormSq(m.e[<<1, 2>>])

IsSquareNumber(x) == \E r \in 0..x : r * r = x
Sqrt(x) == CHOOSE r \in 0..x : r * r = x

\* solver.eigenvalues(): ascending, each [num, den] standing for num / den
Eigenvalues(m) ==
    IF m.rows = 1 THEN <<[num |-> m.e[<<1, 1>>][1], den |-> m.den]>>
    ELSE LET t == Trace(m)[1]
             s == Sqrt(Discriminant(m))
         IN <<[num |-> t - s, den |-> 2 * m.den], [num |-> t + s, den |-> 2 * m.den]>>

\* one eigenvector of a matrix of 2 rows, up to a scalar factor; sign -1 / +1
\* for the smaller / larger eigenvalue
Eigenvector(m, sign) ==
    LET a == m.e[<<1, 1>>][1]
        d == m.e[<<2, 2>>][1]
        b == m.e[<<1, 2>>]
        s == Sqrt(Discriminant(m))
        v1 == <<<<2 * b[1], 2 * b[2]>>, <<d - a + sign * s, 0>>>>
        v2 == <<<<a - d + sign * s, 0>>, <<2 * b[1], -2 * b[2]>>>>
    IN IF v1 # <<CZero, CZero>> THEN v1
       ELSE IF v2 # <<CZero, CZero>> THEN v2
       ELSE IF sign < 0 THEN <<<<1, 0>>, CZero>> ELSE <<CZero, <<1, 0>>>>

\* solver.eigenvectors(): the columns, in the order of the eigenvalues
Eigenvectors(m) ==
    IF m.rows = 1 THEN <<<<<<1, 0>>>>>>
    ELSE <<Eigenvector(m, -1), Eigenvector(m, 1)>>

\* _checkMatrixIsDensityMatrix on the eigenvalues just stored: the error, or "none"
CheckDensityMatrix(eigenValues, m) ==
    IF \E i \in 1..Len(eigenValues) : eigenValues[i].num < 0
    THEN "invalid_argument"
    ELSE IF Trace(m) # <<m.den, 0>> THEN "invalid_argument"
    ELSE "none"

\* _checkSpaceDimension: TRUE when it throws
SpaceDimensionDiffers(m, s) == s.dim # m.rows

\* the spaces QuantumState objects are built over
QSpaces == {HilbertSpaceDims(D) : D \in {<<1>>, <<2>>, <<3>>}}

\* entries of the matrices and vectors handed to QuantumState
DiagVals == {<<-1, 0>>, <<0, 0>>, <<1, 0>>, <<2, 0>>}
OffPairs == {<<<<0, 0>>, <<0, 0>>>>, <<<<1, 0>>, <<1, 0>>>>, <<<<0, 1>>, <<0, -1>>>>,
             <<<<1, 0>>, <<0, 0>>>>, <<<<0, 1>>, <<0, 1>>>>}
VecVals == {<<0, 0>>, <<1, 0>>, <<-1, 0>>, <<0, 1>>, <<1, 1>>}
Dens == {1, 2}

Matrix1(den, a) ==
    [rows |-> 1, cols |-> 1, den |-> den, e |-> [rc \in Cells(1, 1) |-> a]]

Matrix2(den, a, b, c, d) ==
    [rows |-> 2, cols |-> 2, den |-> den,
     e |-> [rc \in Cells(2, 2) |->
              IF rc = <<1, 1>> THEN a ELSE IF rc = <<1, 2>> THEN b
              ELSE IF rc = <<2, 1>> THEN c ELSE d]]

ColumnVector(n, x, y) ==
    [rows |-> n, cols |-> 1, den |-> 1,
     e |-> [rc \in Cells(n, 1) |-> IF rc[1] = 1 THEN x ELSE y]]

Wide == [rows |-> 1, cols |-> 2, den |-> 1, e |-> [rc \in Cells(1, 2) |-> <<1, 0>>]]

\* the matrices handed to setMatrix and to the constructor
SquareInputs ==
    {Matrix1(den, a) : den \in Dens, a \in DiagVals}
    \cup {m \in {Matrix2(den, a, bc[1], bc[2], d) :
                   den \in Dens, a \in DiagVals, bc \in OffPairs, d \in DiagVals} :
            IsSelfAdjoined(m) => IsSquareNumber(Discriminant(m))}

VectorInputs ==
    {ColumnVector(1, x, x) : x \in VecVals}
    \cup {ColumnVector(2, x, y) : x \in VecVals, y \in VecVals}

NoState == [kind |-> "none"]

InitQS ==
    /\ qs = NoState
    /\ qlast = NoCall
    /\ IdleHS
    /\ IdleIdx
    /\ IdlePT
    /\ IdleUT

(* QuantumState(matr, space): the object is built anew, and there is no    *)
(* object when the constructor throws.  Its steps in order: the            *)
(* column-vector branch or the square check, the eigen-decomposition, the  *)
(* density-matrix check, the space check.                                  *)
ConstructOutcome(matr, s) ==
    IF matr.cols # 1 /\ NotSquare(matr)
    THEN [err |-> "invalid_argument", at |-> "square"]
    ELSE LET density == IF matr.cols = 1 THEN OuterTranspose(Normalize(matr))
                        ELSE matr
         IN IF ~IsSelfAdjoined(density)
            THEN [err |-> "invalid_argument", at |-> "selfadjoined"]
            ELSE LET vals == Eigenvalues(density)
                 IN IF CheckDensityMatrix(vals, density) # "none"
                    THEN [err |-> "invalid_argument", at |-> "density"]
                    ELSE IF SpaceDimensionDiffers(density, s)
                    THEN [err |-> "invalid_argument", at |-> "space"]
                    ELSE [err |-> "none", at |-> "none",
                          state |-> [kind |-> "state", density |-> density,
                                     space |-> s, eigenValues |-> vals,
                                     eigenVectors |-> Eigenvectors(density)]]

Construct(matr, s) ==
    LET out == ConstructOutcome(matr, s)
    IN /\ qs' = IF out.err = "none" THEN out.state ELSE NoState
       /\ qlast' = [op |-> "construct", err |-> out.err, at |-> out.at,
                    arg |-> IF matr.cols = 1 THEN matr
                            ELSE [rows |-> matr.rows, cols |-> matr.cols],
                    space |-> s]
       /\ UNCHANGED notQS

(* qs.setMatrix(matr).  _calculateEigenValuesAndVectors assigns            *)
(* _eigenValues and _eigenVectors before _checkMatrixIsDensityMatrix runs; *)
(* _density is assigned last.                                              *)
SetMatrix(matr) ==
    /\ qs.kind = "state"
    /\ IF NotSquare(matr)
       THEN /\ qlast' = [op |-> "setMatrix", err |-> "invalid_argument", at |-> "square"]
            /\ UNCHANGED qs
       ELSE IF SpaceDimensionDiffers(matr, qs.space)
       THEN /\ qlast' = [op |-> "setMatrix", err |-> "invalid_argument", at |-> "space"]
            /\ UNCHANGED qs
       ELSE IF ~IsSelfAdjoined(matr)
       THEN /\ qlast' = [op |-> "setMatrix", err |-> "invalid_argument",
                         at |-> "selfadjoined"]
            /\ UNCHANGED qs
       ELSE LET vals == Eigenvalues(matr)
                mid == [qs EXCEPT !.eigenValues = vals,
                                  !.eigenVectors = Eigenvectors(matr)]
            IN IF CheckDensityMatrix(vals, matr) # "none"
               THEN /\ qlast' = [op |-> "setMatrix", err |-> "invalid_argument",
                                 at |-> "density"]
                    /\ qs' = mid
               ELSE /\ qlast' = [op |-> "setMatrix", err |-> "none", at |-> "none"]
                    /\ qs' = [mid EXCEPT !.density = matr]
    /\ UNCHANGED notQS

NextQS ==
    \/ \E matr \in SquareInputs \cup VectorInputs \cup {Wide}, s \in QSpaces :
          Construct(matr, s)
    \/ \E matr \in SquareInputs \cup VectorInputs \cup {Wide} : SetMatrix(matr)

(***************************************************************************)
(* Claims about QuantumState (checked under SpecQS).                       *)
(***************************************************************************)
\* C1: a setMatrix call that fails at any of its checks leaves densityMatrix(),
\* eigenValues(), eigenVectors() and space() as they were before the call.
C1_SetMatrixStrongSafety ==
    [][(qlast'.op = "setMatrix" /\ qlast'.err # "none") => qs' = qs]_vars

\* C6: for a space S and a non-zero column vector v of length
\* S.totalDimension(), QuantumState(v, S) succeeds and its density matrix is
\* v[a] * conj(v[b]) / |v|^2, which is Hermitian.
C6_PureStateConstruction ==
    (/\ qlast.op = "construct"
     /\ qlast.arg.cols = 1
     /\ qlast.arg.rows = qlast.space.dim
     /\ \E rc \in Cells(qlast.arg.rows, 1) : qlast.arg.e[rc] # CZero) =>
        /\ qlast.err = "none"
        /\ qs.kind = "state"
        /\ qs.space = qlast.space
        /\ IsSelfAdjoined(qs.density)
        /\ LET v == qlast.arg
               normSq == Normalize(v).densq
           IN \A rc \in Cells(v.rows, v.rows) :
                 CMul(qs.density.e[rc], <<normSq, 0>>) =
                    CMul(CMul(v.e[<<rc[1], 1>>], CConj(v.e[<<rc[2], 1>>])),
                         <<qs.density.den, 0>>)

(***************************************************************************)
(* UnitaryTransformation: construction, after the specification (section   *)
(* 4.3) and the repository's tests.                                        *)
(*                                                                         *)
(* A matrix is [rows, cols, e, den, rowRad, colRad], standing for          *)
(*     e[r, c] / den * sqrt(rowRad[r] / colRad[c])                         *)
(* with e Gaussian integers: the square roots are those the normalization  *)
(* of basis columns brings in.  U * U-adjoint = I is decided exactly.      *)
(***************************************************************************)
RECURSIVE ProductOf(_, _)
ProductOf(q, k) == IF k = 0 THEN 1 ELSE q[k] * ProductOf(q, k - 1)

\* sum over k <= n of e[r, k] * conj(e[s, k]) * (P / colRad[k]), P the product
\* of colRad: the (r, s) entry of U * U-adjoint, up to positive factors
RECURSIVE RowProduct(_, _, _, _)
RowProduct(m, r, s, k) ==
    IF k = 0 THEN CZero
    ELSE LET w == ProductOf(m.colRad, m.cols) \div m.colRad[k]
         IN CAdd(RowProduct(m, r, s, k - 1),
                 CMul(<<w, 0>>, CMul(m.e[<<r, k>>], CConj(m.e[<<s, k>>]))))

\* IsUnitary with a seeded fault: only the diagonal of U * U-adjoint is compared
IsUnitaryDiagonalOnly(m) ==
    /\ m.den # 0
    /\ \A k \in 1..m.cols : m.colRad[k] # 0
    /\ \A r \in 1..m.rows :
          CMul(<<m.rowRad[r], 0>>, RowProduct(m, r, r, m.cols))
             = <<m.den * m.den * ProductOf(m.colRad, m.cols), 0>>

\* the unitarity check: U * U-adjoint is the identity
IsUnitary(m) ==
    /\ m.den # 0
    /\ \A k \in 1..m.cols : m.colRad[k] # 0
    /\ \A r \in 1..m.rows, s \in 1..m.rows :
          IF r = s
          THEN CMul(<<m.rowRad[r], 0>>, RowProduct(m, r, r, m.cols))
                  = <<m.den * m.den * ProductOf(m.colRad, m.cols), 0>>
          ELSE RowProduct(m, r, s, m.cols) = CZero

\* squared norm of column c of a basis matrix
ColumnNormSq(b, c) ==
    CNormSq(b.e[<<1, c>>]) + (IF b.rows = 2 THEN CNormSq(b.e[<<2, c>>]) ELSE 0)

\* determinant and adjugate of a basis matrix of 1 or 2 rows
Det(b) ==
    IF b.rows = 1 THEN b.e[<<1, 1>>]
    ELSE CAdd(CMul(b.e[<<1, 1>>], b.e[<<2, 2>>]),
              CMul(<<-1, 0>>, CMul(b.e[<<1, 2>>], b.e[<<2, 1>>])))

Adjugate(b) ==
    IF b.rows = 1 THEN [rc \in Cells(1, 1) |-> <<1, 0>>]
    ELSE [rc \in Cells(2, 2) |->
            IF rc = <<1, 1>> THEN b.e[<<2, 2>>]
            ELSE IF rc = <<2, 2>> THEN b.e[<<1, 1>>]
            ELSE CMul(<<-1, 0>>, b.e[rc])]

(* The change-of-basis operator of two square bases of equal size, their   *)
(* columns normalized: inverse(old) * new.  With o and n the squared       *)
(* column norms, entry (r, c) is                                           *)
(*    sqrt(o[r] / n[c]) * (adj(old) * new)[r, c] * conj(det) / |det|^2.    *)
(* A singular old basis gives den = 0 (no finite matrix).                  *)
ChangeOfBasis(old, new) ==
    LET k == old.rows
        adj == Adjugate(old)
        det == Det(old)
        prod(r, c) == IF k = 1 THEN CMul(adj[<<r, 1>>], new.e[<<1, c>>])
                      ELSE CAdd(CMul(adj[<<r, 1>>], new.e[<<1, c>>]),
                                CMul(adj[<<r, 2>>], new.e[<<2, c>>]))
    IN [rows |-> k, cols |-> k,
        e |-> [rc \in Cells(k, k) |-> CMul(prod(rc[1], rc[2]), CConj(det))],
        den |-> CNormSq(det),
        rowRad |-> [r \in 1..k |-> ColumnNormSq(old, r)],
        colRad |-> [c \in 1..k |-> ColumnNormSq(new, c)]]

\* construct(matrix, space): the error, or "none"
ConstructCheck(m, s) ==
    IF m.rows # m.cols THEN "invalid_argument"
    ELSE IF ~IsUnitary(m) THEN "invalid_argument"
    ELSE IF m.rows # s.dim THEN "invalid_argument"
    ELSE "none"

\* matrices handed to the constructors: e[r, c] / sqrt(q)
UMatrix(rows, cols, e, q) ==
    [rows |-> rows, cols |-> cols, e |-> e, den |-> 1,
     rowRad |-> [r \in 1..rows |-> 1], colRad |-> [c \in 1..cols |-> q]]

UVals == {<<0, 0>>, <<1, 0>>, <<-1, 0>>}

Entries2(a, b, c, d) ==
    [rc \in Cells(2, 2) |->
        IF rc = <<1, 1>> THEN a ELSE IF rc = <<1, 2>> THEN b
        ELSE IF rc = <<2, 1>> THEN c ELSE d]

UInputs ==
    {UMatrix(2, 2, Entries2(a, b, c, d), q) :
        a \in {<<0, 0>>, <<1, 0>>}, b \in UVals, c \in UVals, d \in UVals,
        q \in {1, 2}}
    \cup {UMatrix(2, 2, Entries2(<<1, 0>>, <<0, 0>>, <<0, 0>>, <<0, 1>>), 1),
          UMatrix(2, 2, Entries2(<<1, 0>>, <<0, 1>>, <<0, 1>>, <<1, 0>>), 2),
          UMatrix(2, 2, Entries2(<<1, 0>>, <<0, 1>>, <<0, 1>>, <<1, 0>>), 1)}
    \cup {UMatrix(1, 1, [rc \in Cells(1, 1) |-> a], q) :
            a \in UVals \cup {<<0, 1>>}, q \in {1, 2}}
    \cup {UMatrix(2, 3, [rc \in Cells(2, 3) |-> <<1, 0>>], 1),
          UMatrix(1, 2, [rc \in Cells(1, 2) |-> <<1, 0>>], 1)}

BasisInputs ==
    {[rows |-> 2, cols |-> 2, e |-> Entries2(a, b, c, d)] :
        a \in {<<1, 0>>}, b \in {<<0, 0>>, <<1, 0>>}, c \in {<<0, 0>>, <<1, 0>>},
        d \in {<<1, 0>>, <<-1, 0>>}}
    \cup {[rows |-> 1, cols |-> 1, e |-> [rc \in Cells(1, 1) |-> a]] :
            a \in {<<0, 2>>}}
    \cup {[rows |-> 2, cols |-> 3, e |-> [rc \in Cells(2, 3) |-> <<1, 0>>]],
          [rows |-> 1, cols |-> 2, e |-> [rc \in Cells(1, 2) |-> <<1, 0>>]]}

USpaces == {HilbertSpaceDims(D) : D \in {<<1>>, <<2>>, <<3>>}}

InitUT ==
    /\ ut = [kind |-> "none"]
    /\ ulast = NoCall
    /\ IdleHS
    /\ IdleIdx
    /\ IdlePT
    /\ IdleQS

\* UnitaryTransformation(matrix, space)
UnitaryConstruct(m, s) ==
    LET err == ConstructCheck(m, s)
    IN /\ ut' = IF err = "none" THEN [kind |-> "transformation", transformMatrix |-> m]
                ELSE [kind |-> "none"]
       /\ ulast' = [op |-> "construct", matrix |-> m, space |-> s, err |-> err]
       /\ UNCHANGED notUT

\* UnitaryTransformation(oldBasis, newBasis, space)
UnitaryConstructBases(old, new, s) ==
    LET err == IF old.rows # old.cols \/ new.rows # new.cols THEN "invalid_argument"
               ELSE IF old.rows # new.rows THEN "invalid_argument"
               ELSE ConstructCheck(ChangeOfBasis(old, new), s)
    IN /\ ut' = IF err = "none"
                THEN [kind |-> "transformation",
                      transformMatrix |-> ChangeOfBasis(old, new)]
                ELSE [kind |-> "none"]
       /\ ulast' = [op |-> "constructBases", old |-> old, new |-> new, space |-> s,
                    err |-> err]
       /\ UNCHANGED notUT

NextUT ==
    \/ \E m \in UInputs, s \in USpaces : UnitaryConstruct(m, s)
    \/ \E old \in BasisInputs, new \in BasisInputs, s \in USpaces :
          UnitaryConstructBases(old, new, s)

(***************************************************************************)
(* Claims about UnitaryTransformation (checked under SpecUT).              *)
(***************************************************************************)
\* U * U-adjoint = I for a supplied matrix e / sqrt(q), entry by entry
TimesAdjointIsIdentity(m) ==
    LET q == m.colRad[1]
        dot(r, s) == IF m.cols = 1 THEN CMul(m.e[<<r, 1>>], CConj(m.e[<<s, 1>>]))
                     ELSE CAdd(CMul(m.e[<<r, 1>>], CConj(m.e[<<s, 1>>])),
                               CMul(m.e[<<r, 2>>], CConj(m.e[<<s, 2>>])))
    IN \A r \in 1..m.rows, s \in 1..m.rows :
          dot(r, s) = IF r = s THEN <<q, 0>> ELSE CZero

\* C7: construction throws and yields no instance when the matrix is
\* non-square, not unitary or of a dimension other than totalDimension(), and
\* in the two-basis form when either basis is non-square or the bases differ
\* in size; otherwise the direct form succeeds with transformMatrix() equal to
\* the supplied matrix.
C7_ConstructionChecks ==
    /\ ulast.op = "construct" =>
          LET m == ulast.matrix
              bad == \/ m.rows # m.cols
                     \/ ~TimesAdjointIsIdentity(m)
                     \/ m.rows # ulast.space.dim
          IN IF bad
             THEN ulast.err # "none" /\ ut.kind = "none"
             ELSE /\ ulast.err = "none"
                  /\ ut.kind = "transformation"
                  /\ ut.transformMatrix = m
    /\ ulast.op = "constructBases" =>
          ((\/ ulast.old.rows # ulast.old.cols
            \/ ulast.new.rows # ulast.new.cols
            \/ ulast.old.rows # ulast.new.rows)
              => ulast.err # "none" /\ ut.kind = "none")

\* C7 witness: the matrix [[1, 1], [1, -1]] / sqrt(2) was accepted over a space
\* of dimension 2
C7_Witness ==
    /\ ulast.op = "construct"
    /\ ulast.err = "none"
    /\ ulast.space.dim = 2
    /\ ut.kind = "transformation"
    /\ ut.transformMatrix.e = Entries2(<<1, 0>>, <<1, 0>>, <<1, 0>>, <<-1, 0>>)
    /\ ut.transformMatrix.colRad = <<2, 2>>

(***************************************************************************)
(* Specifications.  Each component starts the others idle and never        *)
(* touches them.                                                           *)
(***************************************************************************)
SpecHS == InitHS /\ [][NextHS]_vars

SpecIdx == InitIdx /\ [][NextIdx]_vars

SpecPT == InitPT /\ [][NextPT]_vars

SpecQS == InitQS /\ [][NextQS]_vars

SpecUT == InitUT /\ [][NextUT]_vars

====
